---- MODULE Spec2Model ----
(***************************************************************************)
(* The contact/loan intake server of FINAI (express + sqlite3):            *)
(* the database handle and its schema statement, the two POST handlers,    *)
(* the INSERT statement each valid contact submission queues, and the      *)
(* callback that answers it.                                               *)
(***************************************************************************)
EXTENDS Integers, Sequences, FiniteSets, TLC

\* Bounds of the model.
MaxReq == 2     \* POST /submit-contact requests in one process lifetime
MaxLoan == 1    \* POST /api/submit-loan requests in one process lifetime
MaxOld == 1     \* rows left in contactData.db by earlier process lifetimes

VARIABLES
    proc,       \* "running" | "exited" : the node process
    listening,  \* app.listen has bound port 5000
    db,         \* "opening" | "open" | "failed" : the sqlite3.Database handle
    createSt,   \* "queued" | "done" | "error" : the CREATE TABLE statement
    schema,     \* sqlite_master of contactData.db: the names of its tables
    rows,       \* the rows of contact_data, in insertion order
    seq,        \* sqlite_sequence entry of contact_data (AUTOINCREMENT)
    nreq,       \* POST /submit-contact requests received so far
    stmts,      \* per request: the INSERT statement its handler passed to db.run
    responses,  \* the responses sent to POST /submit-contact, in the order sent
    lastReq,    \* req.body of the POST /submit-contact request handled last
    loans       \* POST /api/submit-loan: each body logged and the response sent

vars == <<proc, listening, db, createSt, schema, rows, seq, nreq, stmts,
          responses, lastReq, loans>>

----------------------------------------------------------------------------
\* JavaScript / SQL values

Undefined == [type |-> "undefined"]
Null == [type |-> "null"]
Str(s) == [type |-> "string", val |-> s]
Num(n) == [type |-> "number", val |-> n]

\* JavaScript's !v
Falsy(v) ==
    CASE v.type = "undefined" -> TRUE
      [] v.type = "null" -> TRUE
      [] v.type = "string" -> v.val = ""
      [] v.type = "number" -> v.val = 0

\* The JSON bodies a client may post to /submit-contact.  A key that is not
\* in the body reads as undefined; the body may carry an id of its own.
\* The bodies tried: the complete ones (with or without contact, with or
\* without an id), those with one required field absent or empty, and {}.
CompleteBodies ==
    [name : {Str("Asha")}, email : {Str("asha@example.com")},
     contact : {Undefined, Str("98")},
     message : {Str("Interested in a loan")},
     id : {Undefined, Num(99)}]
EmptyBody ==
    [name |-> Undefined, email |-> Undefined, contact |-> Undefined,
     message |-> Undefined, id |-> Undefined]
ContactBodies ==
    CompleteBodies
    \cup {[b EXCEPT ![f] = v] : b \in {c \in CompleteBodies : c.id = Undefined},
                                f \in {"name", "email", "message"},
                                v \in {Undefined, Str("")}}
    \cup {EmptyBody}

\* The JSON bodies a client may post to /api/submit-loan: the keys present.
LoanBodies == {{}, {"amount"}}

\* Faulty variants of the validation: one test left out.
InvalidNoMessageCheck(body) == Falsy(body.name) \/ Falsy(body.email)
InvalidNoNameCheck(body) == Falsy(body.email) \/ Falsy(body.message)
\* if (!name || !email || !message)
Invalid(body) == Falsy(body.name) \/ Falsy(body.email) \/ Falsy(body.message)

\* sqlite3 binds undefined as NULL and a string as TEXT
Bind(v) == IF v.type = "undefined" THEN Null ELSE v

\* const { name, email, contact, message } = req.body;  [name, email, contact, message]
Params(body) ==
    [name |-> Bind(body.name), email |-> Bind(body.email),
     contact |-> Bind(body.contact), message |-> Bind(body.message)]

----------------------------------------------------------------------------
\* The store

Max(a, b) == IF a >= b THEN a ELSE b

RECURSIVE MaxId(_)
MaxId(rws) == IF rws = <<>> THEN 0 ELSE Max(rws[Len(rws)].id, MaxId(SubSeq(rws, 1, Len(rws) - 1)))

TableCount(sch) == Cardinality({i \in DOMAIN sch : sch[i] = "contact_data"})
TableExists(sch) == TableCount(sch) > 0

File == [schema |-> schema, rows |-> rows, seq |-> seq]

\* Faulty variant: the table is created anew whether or not it exists.
CreateTableAlways(f) ==
    [err |-> FALSE,
     file |-> [f EXCEPT !.schema = Append(@, "contact_data"), !.rows = <<>>]]
\* CREATE TABLE IF NOT EXISTS contact_data (...)
CreateTableIfNotExists(f) ==
    IF TableExists(f.schema)
    THEN [err |-> FALSE, file |-> f]
    ELSE [err |-> FALSE,
          file |-> [f EXCEPT !.schema = Append(@, "contact_data"), !.rows = <<>>]]

\* name TEXT NOT NULL, email TEXT NOT NULL, contact TEXT, message TEXT NOT NULL
NotNullOk(p) ==
    p.name.type # "null" /\ p.email.type # "null" /\ p.message.type # "null"

\* Faulty variant: the sequence is not advanced.
NextIdReused(sq, rws) == Max(sq, 1)
\* id INTEGER PRIMARY KEY AUTOINCREMENT
NextId(sq, rws) == Max(sq, MaxId(rws)) + 1

\* Faulty variant: the insert overwrites the newest row instead of adding one.
InsertOrReplace(f, p) ==
    IF ~TableExists(f.schema) \/ ~NotNullOk(p)
    THEN [err |-> TRUE, file |-> f, lastID |-> 0]
    ELSE LET id == IF f.rows = <<>> THEN NextId(f.seq, f.rows) ELSE MaxId(f.rows)
             row == [id |-> id, name |-> p.name, email |-> p.email,
                     contact |-> p.contact, message |-> p.message]
             kept == IF f.rows = <<>> THEN <<>> ELSE SubSeq(f.rows, 1, Len(f.rows) - 1)
         IN [err |-> FALSE,
             file |-> [f EXCEPT !.rows = Append(kept, row), !.seq = id],
             lastID |-> id]
\* INSERT INTO contact_data (name, email, contact, message) VALUES (?, ?, ?, ?)
SqlInsert(f, p) ==
    IF ~TableExists(f.schema) \/ ~NotNullOk(p)
    THEN [err |-> TRUE, file |-> f, lastID |-> 0]
    ELSE LET id == NextId(f.seq, f.rows)
             row == [id |-> id, name |-> p.name, email |-> p.email,
                     contact |-> p.contact, message |-> p.message]
         IN [err |-> FALSE,
             file |-> [f EXCEPT !.rows = Append(@, row), !.seq = id],
             lastID |-> id]

\* A row an earlier lifetime of the service stored.
OldRow(i) ==
    [id |-> i, name |-> Str("Asha"), email |-> Str("asha@example.com"),
     contact |-> Null, message |-> Str("Interested in a loan")]

----------------------------------------------------------------------------
\* Responses

BadRequest(r) ==
    [req |-> r, status |-> 400,
     body |-> [error |-> "Name, email, and message are required."]]
StorageError(r) ==
    [req |-> r, status |-> 500,
     body |-> [error |-> "Failed to save contact data."]]
Saved(r, id) ==
    [req |-> r, status |-> 200,
     body |-> [message |-> "Contact data saved successfully!", id |-> id]]

\* Faulty variants of the callback: the err branch falls through to the
\* success response; the id is read from the connection, not the statement.
CallbackNoReturn(r, s, sq) ==
    IF s.st = "err" THEN <<StorageError(r), Saved(r, s.lastID)>>
    ELSE <<Saved(r, s.lastID)>>
CallbackConnectionId(r, s, sq) ==
    IF s.st = "err" THEN <<StorageError(r)>> ELSE <<Saved(r, sq)>>
\* function (err) { if (err) { return res.status(500)... } res.status(200).json({.., id: this.lastID}) }
\* s is the statement (this), sq the connection's last AUTOINCREMENT value.
InsertCallback(r, s, sq) ==
    IF s.st = "err" THEN <<StorageError(r)>> ELSE <<Saved(r, s.lastID)>>

\* Faulty variant: an empty application is refused.
LoanRejectEmpty(body) ==
    [status |-> IF body = {} THEN 400 ELSE 200,
     body |-> [message |-> "Loan application submitted successfully."]]
\* res.status(200).json({ message: "Loan application submitted successfully." })
LoanResponse(body) ==
    [status |-> 200,
     body |-> [message |-> "Loan application submitted successfully."]]

NoStmt == [st |-> "none", called |-> FALSE, lastID |-> 0, params |-> Params(EmptyBody)]

----------------------------------------------------------------------------
\* Init: the module has been loaded.  new sqlite3.Database is opening the
\* file, the CREATE TABLE statement is queued behind the open, the routes
\* are registered and app.listen has been called but has not bound yet.
\* The file is absent or empty, or was left by earlier lifetimes.

Init ==
    /\ proc = "running"
    /\ listening = FALSE
    /\ db = "opening"
    /\ createSt = "queued"
    /\ \E k \in 0..MaxOld, fresh \in BOOLEAN :
         /\ fresh => k = 0
         /\ schema = IF fresh THEN <<>> ELSE <<"contact_data">>
         /\ rows = [i \in 1..k |-> OldRow(i)]
         /\ seq = k
    /\ nreq = 0
    /\ stmts = [r \in 1..MaxReq |-> NoStmt]
    /\ responses = <<>>
    /\ lastReq = Undefined
    /\ loans = <<>>

\* app.listen(5000, ...): the port is bound, whatever the database does
Listen ==
    /\ proc = "running"
    /\ ~listening
    /\ listening' = TRUE
    /\ UNCHANGED <<proc, db, createSt, schema, rows, seq, nreq, stmts, responses, lastReq, loans>>

\* new sqlite3.Database(dbPath, (err) => {...}) : err is null, logs "Connected"
OpenOk ==
    /\ proc = "running"
    /\ db = "opening"
    /\ db' = "open"
    /\ UNCHANGED <<proc, listening, createSt, schema, rows, seq, nreq, stmts, responses, lastReq, loans>>

\* ... : err is set; the callback logs it and returns.  The handle never
\* opens, so the statements queued on it are never run.
OpenFail ==
    /\ proc = "running"
    /\ db = "opening"
    /\ db' = "failed"
    /\ UNCHANGED <<proc, listening, createSt, schema, rows, seq, nreq, stmts, responses, lastReq, loans>>

\* db.run(`CREATE TABLE IF NOT EXISTS contact_data ...`) runs once the handle
\* is open.  It has no callback: an error is emitted as an 'error' event
\* nobody listens to, which ends the process or is lost.
CreateTable ==
    /\ proc = "running"
    /\ db = "open"
    /\ createSt = "queued"
    /\ LET res == CreateTableIfNotExists(File) IN
         IF res.err
         THEN /\ createSt' = "error"
              /\ proc' \in {"running", "exited"}
              /\ UNCHANGED <<schema, rows, seq>>
         ELSE /\ createSt' = "done"
              /\ schema' = res.file.schema
              /\ rows' = res.file.rows
              /\ seq' = res.file.seq
              /\ UNCHANGED proc
    /\ UNCHANGED <<listening, db, nreq, stmts, responses, lastReq, loans>>

\* The table is missing and cannot be created (read-only file, disk full).
CreateTableFail ==
    /\ proc = "running"
    /\ db = "open"
    /\ createSt = "queued"
    /\ ~TableExists(schema)
    /\ createSt' = "error"
    /\ proc' \in {"running", "exited"}
    /\ UNCHANGED <<listening, db, schema, rows, seq, nreq, stmts, responses, lastReq, loans>>

\* app.post('/submit-contact', (req, res) => {...})
SubmitContact(body) ==
    /\ proc = "running"
    /\ listening
    /\ nreq < MaxReq
    /\ nreq' = nreq + 1
    /\ lastReq' = body
    /\ IF Invalid(body)
       THEN /\ responses' = Append(responses, BadRequest(nreq'))
            /\ UNCHANGED stmts
       ELSE /\ stmts' = [stmts EXCEPT ![nreq'] =
                           [st |-> "queued", called |-> FALSE, lastID |-> 0,
                            params |-> Params(body)]]
            /\ UNCHANGED responses
    /\ UNCHANGED <<proc, listening, db, createSt, schema, rows, seq, loans>>

\* The store runs the INSERT of request r.  Statements are not serialized:
\* it may run before the CREATE TABLE statement has.
StmtRun(r) ==
    /\ proc = "running"
    /\ db = "open"
    /\ stmts[r].st = "queued"
    /\ LET res == SqlInsert(File, stmts[r].params) IN
         /\ stmts' = [stmts EXCEPT ![r].st = IF res.err THEN "err" ELSE "ok",
                                   ![r].lastID = res.lastID]
         /\ schema' = res.file.schema
         /\ rows' = res.file.rows
         /\ seq' = res.file.seq
    /\ UNCHANGED <<proc, listening, db, createSt, nreq, responses, lastReq, loans>>

\* The write fails in the store (disk full, lock contention, corruption).
StmtFail(r) ==
    /\ proc = "running"
    /\ db = "open"
    /\ stmts[r].st = "queued"
    /\ stmts' = [stmts EXCEPT ![r].st = "err"]
    /\ UNCHANGED <<proc, listening, db, createSt, schema, rows, seq, nreq, responses, lastReq, loans>>

\* The callback of request r's db.run is called, in any order among the
\* statements that have completed.
Callback(r) ==
    /\ proc = "running"
    /\ stmts[r].st \in {"ok", "err"}
    /\ ~stmts[r].called
    /\ stmts' = [stmts EXCEPT ![r].called = TRUE]
    /\ responses' = responses \o InsertCallback(r, stmts[r], seq)
    /\ UNCHANGED <<proc, listening, db, createSt, schema, rows, seq, nreq, lastReq, loans>>

\* app.post("/api/submit-loan", (req, res) => {...})
SubmitLoan(body) ==
    /\ proc = "running"
    /\ listening
    /\ Len(loans) < MaxLoan
    /\ loans' = Append(loans, [logged |-> body, response |-> LoanResponse(body)])
    /\ UNCHANGED <<proc, listening, db, createSt, schema, rows, seq, nreq, stmts, responses, lastReq>>

Next ==
    \/ Listen
    \/ OpenOk
    \/ OpenFail
    \/ CreateTable
    \/ CreateTableFail
    \/ \E body \in ContactBodies : SubmitContact(body)
    \/ \E r \in 1..MaxReq : StmtRun(r)
    \/ \E r \in 1..MaxReq : StmtFail(r)
    \/ \E r \in 1..MaxReq : Callback(r)
    \/ \E body \in LoanBodies : SubmitLoan(body)

Spec == Init /\ [][Next]_vars
----------------------------------------------------------------------------
\* What the properties below read off the state

Required == {"name", "email", "message"}

\* a required field is absent or the empty string
MissingRequired(body) ==
    \E f \in Required :
        body[f].type = "undefined" \/ (body[f].type = "string" /\ body[f].val = "")

\* the positions in the response log of the responses sent to request r
RespOf(r) == {i \in DOMAIN responses : responses[i].req = r}

Success(i) == responses[i].status = 200

SameData(row, p) ==
    /\ row.name = p.name
    /\ row.email = p.email
    /\ row.contact = p.contact
    /\ row.message = p.message

StoreUnchanged == rows' = rows /\ schema' = schema /\ seq' = seq

SchemaFailed == db = "failed" \/ createSt = "error"

----------------------------------------------------------------------------
\* C1, as claimed: every request with name, email and message present and
\* non-empty is answered with success, and the id in that response is
\* greater than the id in every success response sent before it.
C1_AsClaimed ==
    \A r \in 1..nreq :
        stmts[r].st # "none" =>
            \A i \in RespOf(r) :
                /\ Success(i)
                /\ \A j \in 1..(i - 1) :
                       Success(j) => responses[i].body.id > responses[j].body.id

C1_Inv ==
    /\ \A r \in 1..nreq :
           stmts[r].st = "ok" =>
               /\ \A i \in RespOf(r) : responses[i] = Saved(r, stmts[r].lastID)
               /\ stmts[r].called => RespOf(r) # {}
    /\ \A i, j \in DOMAIN responses :
           (i # j /\ Success(i) /\ Success(j)) =>
               responses[i].body.id # responses[j].body.id

C1_Step ==
    \A r \in 1..MaxReq :
        (stmts[r].st = "queued" /\ stmts'[r].st = "ok") =>
            /\ \A i \in DOMAIN responses :
                   Success(i) => stmts'[r].lastID > responses[i].body.id
            /\ \A k \in DOMAIN rows : stmts'[r].lastID > rows[k].id

\* C1, amended: a request with name, email and message present and non-empty
\* whose insert the store completes is answered with success and with the id
\* the store gave its row; that id is greater than every id already stored
\* and than the id in every success response sent before the insert ran; no
\* two success responses carry the same id, identical submissions included.
C1_Amended == [](C1_Inv) /\ [][C1_Step]_vars

\* Two identical submissions have been answered with success, with ids
\* in increasing order.
C1_Witness ==
    \E i, j \in DOMAIN responses :
        /\ i < j
        /\ Success(i) /\ Success(j)
        /\ stmts[responses[i].req].params = stmts[responses[j].req].params
        /\ responses[i].body.id < responses[j].body.id

C2_Step ==
    nreq' = nreq + 1 =>
        IF MissingRequired(lastReq')
        THEN /\ responses' = Append(responses, BadRequest(nreq'))
             /\ stmts' = stmts
             /\ StoreUnchanged
        ELSE /\ responses' = responses
             /\ stmts'[nreq'].st = "queued"

C2_Inv ==
    \A i \in DOMAIN responses :
        responses[i].status = 400 => stmts[responses[i].req].st = "none"

\* C2: a request in which name, email or message is absent or empty is
\* answered with the 400 validation error, passes no statement to the store
\* and leaves contact_data as it was; a request that lacks only contact is
\* not rejected.
C2_Validation == [][C2_Step]_vars /\ [](C2_Inv)

\* A request with an empty message has just been rejected while the table
\* holds rows.
C2_Witness ==
    /\ nreq > 0
    /\ lastReq.message = Str("")
    /\ lastReq.name = Str("Asha")
    /\ responses # <<>>
    /\ responses[Len(responses)] = BadRequest(nreq)
    /\ rows # <<>>

C3_Inv ==
    \A r \in 1..nreq :
        stmts[r].st = "err" =>
            /\ \A i \in RespOf(r) : responses[i] = StorageError(r)
            /\ stmts[r].called => Cardinality(RespOf(r)) = 1

C3_Step ==
    \A r \in 1..MaxReq :
        /\ (stmts[r].st = "queued" /\ stmts'[r].st = "err") =>
               (StoreUnchanged /\ proc' = "running")
        /\ (stmts[r].st = "err" /\ ~stmts[r].called /\ stmts'[r].called) =>
               (StoreUnchanged /\ proc' = "running")

\* C3: a failed insert is answered with the 500 storage error and nothing
\* else, adds no row, and leaves the process running.
C3_StorageError == [](C3_Inv) /\ [][C3_Step]_vars

\* A request whose insert failed got its 500, and a later request was then
\* stored and answered with success.
C3_Witness ==
    \E i, j \in DOMAIN responses :
        /\ i < j
        /\ responses[i].status = 500
        /\ Success(j)
        /\ responses[i].req < responses[j].req
        /\ proc = "running"

\* C4, as claimed: once ensureSchema has failed (the file did not open, or
\* the table was not created) the service is not Ready: it accepts no
\* request from then on.
C4_AsClaimed ==
    [][SchemaFailed => (nreq' = nreq /\ loans' = loans)]_vars

\* C5: every row of contact_data has a non-empty name, email and message.
C5_RowsNonEmpty ==
    \A k \in DOMAIN rows :
        \A f \in Required :
            rows[k][f].type = "string" /\ rows[k][f].val # ""

\* A valid request has been stored, an invalid one rejected.
C5_Witness ==
    /\ \E r \in 1..nreq : stmts[r].st = "ok"
    /\ \E i \in DOMAIN responses : responses[i].status = 400
    /\ rows # <<>>

C6_Step ==
    Len(loans') = Len(loans) + 1 =>
        /\ loans'[Len(loans')].response.status = 200
        /\ StoreUnchanged
        /\ stmts' = stmts
        /\ responses' = responses

C6_Inv ==
    \A i \in DOMAIN loans :
        loans[i].response =
            [status |-> 200,
             body |-> [message |-> "Loan application submitted successfully."]]

\* C6: POST /api/submit-loan answers 200 to every body, the empty one
\* included, and changes neither contact_data nor any pending insert.
C6_LoanStub == [][C6_Step]_vars /\ [](C6_Inv)

\* An empty loan application has been acknowledged while the table holds rows.
C6_Witness ==
    /\ \E i \in DOMAIN loans : loans[i].logged = {} /\ loans[i].response.status = 200
    /\ rows # <<>>

C7_Step ==
    /\ \A k \in DOMAIN rows : k \in DOMAIN rows' /\ rows'[k] = rows[k]
    /\ Len(rows') > Len(rows) =>
           /\ Len(rows') = Len(rows) + 1
           /\ rows'[Len(rows')].id = seq'
           /\ seq' > seq
           /\ \A b \in ContactBodies :
                  b.id.type = "number" => rows'[Len(rows')].id # b.id.val

\* C7: a row, once stored, stays as it is; a new row gets the next value of
\* the store's sequence as its id, never the id of a request body.
C7_RowsKept == [][C7_Step]_vars

\* A request that carried an id of its own was stored next to an older row.
C7_Witness ==
    /\ nreq > 0
    /\ lastReq.id = Num(99)
    /\ stmts[nreq].st = "ok"
    /\ Len(rows) >= 2

C8_Inv ==
    /\ TableCount(schema) <= 1
    /\ LET once == CreateTableIfNotExists(File)
           twice == CreateTableIfNotExists(once.file)
       IN /\ ~once.err
          /\ ~twice.err
          /\ twice.file = once.file
          /\ TableCount(twice.file.schema) = 1

C8_Step ==
    (createSt = "queued" /\ createSt' # "queued" /\ TableExists(schema)) =>
        (createSt' = "done" /\ StoreUnchanged /\ proc' = proc)

\* C8: creating the table where it exists (a second call, or a start over an
\* existing file) raises no error, adds no second table and keeps the rows.
C8_Idempotent == [](C8_Inv) /\ [][C8_Step]_vars

\* The schema statement has run over a file whose table already held rows,
\* and no row was inserted since.
C8_Witness ==
    /\ createSt = "done"
    /\ rows # <<>>
    /\ \A r \in 1..MaxReq : stmts[r].st # "ok"

\* C9, as claimed: no insert of POST /submit-contact is handed to the store
\* before the schema statement has completed without error.
C9_AsClaimed ==
    \A r \in 1..MaxReq : stmts[r].st # "none" => createSt = "done"

====
